---- MODULE Spec2Model ----
(***************************************************************************)
(* Model of the Plex music provider adapter (music_providers/plex.py):     *)
(* the identity cache PlexProvider._uids and the canonicalization methods  *)
(* _process_artist, _process_album, _parse_album and _process_track, the   *)
(* library enumerations, the HTTP helpers _get_data/_post_data behind the  *)
(* throttler, and get_stream_details.                                      *)
(***************************************************************************)
EXTENDS Integers, Sequences, FiniteSets, TLC

(***************************************************************************)
(* Bounds of the model.                                                    *)
(***************************************************************************)
\* canonicalization coroutines started in the interleaved specification
MaxCalls == 3
\* the clock stops after this many throttler periods
MaxTime == 2
\* the full pages one _get_all_items call is followed through
MaxPages == 2
\* the WebSocket connections followed, one after the other
MaxConns == 3
\* the longest player queue, and the largest offset and limit asked for
MaxQueue == 4

(***************************************************************************)
(* The backend catalog the raw records are drawn from.  A Plex server      *)
(* gives every library item one ratingKey; artists, albums and tracks      *)
(* share that key space.                                                   *)
(***************************************************************************)
Instances == {"plexA", "plexB"}
\* the second adapter instance is driven through its artist calls only
AlbumInstances == {"plexA"}
ArtistKeys == {1, 2}
AlbumKeys == {3, 4}
TrackKeys == {5}
Keys == ArtistKeys \cup AlbumKeys \cup TrackKeys
Variants == {"full", "sparse"}

\* str(ratingKey): the cache is keyed by the decimal string of the key
Str(k) == <<"1", "2", "3", "4", "5">>[k]
Uids == {Str(k) : k \in Keys}

\* a raw record as plexapi hands it over; year 0 and summary "" stand for
\* the falsy values (None, 0, "") the code tests with "if plex_album.year"
Raw(kind, k, v, parent, grand) ==
    [kind |-> kind, ratingKey |-> k,
     title |-> IF v = "full" THEN "A" ELSE "",
     year |-> IF v = "full" /\ kind = "album" THEN 1959 ELSE 0,
     summary |-> IF v = "full" /\ kind # "track" THEN "s" ELSE "",
     parentRatingKey |-> parent, grandparentRatingKey |-> grand]

ArtistRecs == {Raw("artist", k, v, 0, 0) : k \in ArtistKeys, v \in Variants}
AlbumRecs == {Raw("album", k, v, p, 0) : k \in AlbumKeys, v \in Variants, p \in ArtistKeys}
TrackRecs == {Raw("track", k, "full", 3, 1) : k \in TrackKeys}
NoRec == Raw("none", 0, "sparse", 0, 0)

\* what the server answers to plex_album.artist(), plex_track.album() and
\* plex_track.artist(): the full record of the parent item
FetchArtist(k) == Raw("artist", k, "full", 0, 0)
FetchAlbum(k) == Raw("album", k, "full", IF k = 3 THEN 1 ELSE 2, 0)
\* outcome of one such server round trip
Outcomes == {"ok", "raise"}

(***************************************************************************)
(* Canonical media objects.  An object is named by a reference             *)
(* <<uid, n>>: the n-th object constructed for native id uid.              *)
(***************************************************************************)
NullRef == <<>>

VARIABLES
    heap,    \* reference -> media object, for every object constructed
    uids,    \* PlexProvider._uids: uid -> reference or NullRef
    last,    \* the call that ended last: its arguments and its outcome
    netops,  \* the kinds of network operation performed so far
    tasks,   \* slot -> a canonicalization coroutine suspended at an await
    started, \* coroutines started so far in the interleaved specification
    now,        \* the clock, in throttler periods
    task_logs,  \* Throttler._task_logs: the times of the slots handed out
    lastHttp,   \* the _get_data / _post_data call that ended last
    lastStream, \* the get_stream_details call that ended last
    gets,        \* the times at which _get_data started a GET, oldest first
    plex_server, \* instance -> PlexProvider._plex_server
    plex_music,  \* instance -> PlexProvider._plex_music
    lastProv,    \* the provider call (setup, search, ...) that ended last
    player,      \* the fields of the registered TestPlayer
    lastCmd,     \* the player command that was dispatched last
    config,      \* mass.config
    lastSave,    \* the save_config request that ended last
    paging,      \* the _get_all_items call in progress or ended last
    conn,        \* the WebSocket connection being handled or handled last
    listeners,   \* the callback ids registered with mass.add_event_listener
    lastQueue    \* the player_queue request that ended last

cacheVars == <<heap, uids, last>>
taskVars == <<tasks, started>>
httpVars == <<now, task_logs, lastHttp, gets>>
streamVars == <<lastStream>>
provVars == <<plex_server, plex_music, lastProv>>
playerVars == <<player, lastCmd>>
configVars == <<config, lastSave>>
pageVars == <<paging>>
wsVars == <<conn, listeners>>
queueVars == <<lastQueue>>
laterVars == <<pageVars, wsVars, queueVars>>
\* what the adapter's network helpers leave alone
offNet == <<provVars, playerVars, configVars, laterVars>>
\* what a whole canonicalization call leaves alone
offCache == <<taskVars, httpVars, streamVars, offNet>>
vars == <<heap, uids, last, netops, tasks, started, now, task_logs, lastHttp,
          lastStream, gets, plex_server, plex_music, lastProv, player, lastCmd,
          config, lastSave, paging, conn, listeners, lastQueue>>

St == [heap |-> heap, uids |-> uids]

NewItem(kind, uid, name) ==
    [kind |-> kind, item_id |-> uid, provider |-> "plex", name |-> name,
     year |-> 0, description |-> "", artist |-> NullRef, album |-> NullRef,
     artists |-> <<>>, provider_ids |-> {}]

\* MediaItemProviderId(item_id=uid, prov_type=self.type, prov_id=self.id, url=rec.key)
ProviderId(uid, inst, rec) ==
    [item_id |-> uid, prov_type |-> "plex", prov_id |-> inst, url |-> rec.ratingKey]

\* the reference a newly constructed object for uid gets
NextRef(h, uid) == <<uid, 1 + Cardinality({r \in DOMAIN h : r[1] = uid})>>
Put(h, ref, obj) == [r \in DOMAIN h \cup {ref} |-> IF r = ref THEN obj ELSE h[r]]

\* _process_artist without the cache lookup of line 413: always constructs
ProcessArtistNoLookup(st, inst, rec) ==
    LET uid == Str(rec.ratingKey)
        ref == NextRef(st.heap, uid)
        obj == [NewItem("artist", uid, rec.title) EXCEPT
                   !.provider_ids = {ProviderId(uid, inst, rec)},
                   !.description = rec.summary]
    IN  [heap |-> Put(st.heap, ref, obj),
         uids |-> [st.uids EXCEPT ![uid] = ref],
         ret |-> ref, status |-> "ok"]

(***************************************************************************)
(* _process_artist: no suspension point inside.                            *)
(***************************************************************************)
ProcessArtist(st, inst, rec) ==
    LET uid == Str(rec.ratingKey)
        artist == st.uids[uid]
    IN  IF artist = NullRef
        THEN LET ref == NextRef(st.heap, uid)
                 obj == [NewItem("artist", uid, rec.title) EXCEPT
                            !.provider_ids = {ProviderId(uid, inst, rec)},
                            !.description = rec.summary]
             IN  [heap |-> Put(st.heap, ref, obj),
                  uids |-> [st.uids EXCEPT ![uid] = ref],
                  ret |-> ref, status |-> "ok"]
        ELSE [heap |-> st.heap, uids |-> st.uids, ret |-> artist, status |-> "ok"]

(***************************************************************************)
(* _process_album, up to its await of _process_artist (lines 440-480).     *)
(* fetch is the outcome of plex_album.artist(), called only on a miss of   *)
(* the artist id.  status "await": the coroutine is suspended with the     *)
(* album in ret; "ok": it returned ret; "raise": the server call raised.   *)
(***************************************************************************)
\* lines 440-473 with the year and summary copied on a cache hit as well
AlbumHeadOverwrite(st, inst, rec) ==
    LET uid == Str(rec.ratingKey)
        album == st.uids[uid]
        ref == IF album = NullRef THEN NextRef(st.heap, uid) ELSE album
        base == IF album = NullRef
                THEN [NewItem("album", uid, rec.title) EXCEPT
                         !.provider_ids = {ProviderId(uid, inst, rec)}]
                ELSE st.heap[album]
        obj == [base EXCEPT !.year = rec.year, !.description = rec.summary]
    IN  [heap |-> Put(st.heap, ref, obj),
         uids |-> [st.uids EXCEPT ![uid] = ref],
         ret |-> ref, status |-> "ok"]

AlbumHead(st, inst, rec) ==
    LET uid == Str(rec.ratingKey)
        album == st.uids[uid]
    IN  IF album = NullRef
        THEN LET ref == NextRef(st.heap, uid)
                 obj == [NewItem("album", uid, rec.title) EXCEPT
                            !.provider_ids = {ProviderId(uid, inst, rec)},
                            !.year = IF rec.year # 0 THEN rec.year ELSE 0,
                            !.description = IF rec.summary # "" THEN rec.summary ELSE ""]
             IN  [heap |-> Put(st.heap, ref, obj),
                  uids |-> [st.uids EXCEPT ![uid] = ref],
                  ret |-> ref, status |-> "ok"]
        ELSE [heap |-> st.heap, uids |-> st.uids, ret |-> album, status |-> "ok"]

ProcessAlbumSeg1(st, inst, rec, fetch) ==
    LET h == AlbumHead(st, inst, rec)
        artist == h.uids[Str(rec.parentRatingKey)]
    IN  IF artist # NullRef
        THEN [h EXCEPT !.heap = [h.heap EXCEPT ![h.ret].artist = artist]]
        ELSE IF fetch = "raise"
             THEN [h EXCEPT !.status = "raise"]
             ELSE [h EXCEPT !.status = "await"]

\* the rest of _process_album: the awaited _process_artist, then line 483
ProcessAlbumSeg2(st, inst, rec, album) ==
    LET a == ProcessArtist(st, inst, FetchArtist(rec.parentRatingKey))
    IN  [heap |-> [a.heap EXCEPT ![album].artist = a.ret],
         uids |-> a.uids, ret |-> album, status |-> "ok"]

\* the whole call, run without interleaving
ProcessAlbum(st, inst, rec, fetch) ==
    LET s1 == ProcessAlbumSeg1(st, inst, rec, fetch)
    IN  IF s1.status = "await"
        THEN ProcessAlbumSeg2([heap |-> s1.heap, uids |-> s1.uids], inst, rec, s1.ret)
        ELSE s1

(***************************************************************************)
(* _parse_album: the album is constructed, the artist awaited, and only    *)
(* then is the album stored (line 527).                                    *)
(***************************************************************************)
ParseAlbumSeg1(st, inst, rec, fetch) ==
    LET uid == Str(rec.ratingKey)
        album == st.uids[uid]
        obj == [NewItem("album", uid, rec.title) EXCEPT
                   !.provider_ids = {ProviderId(uid, inst, rec)}]
    IN  IF album # NullRef
        THEN [heap |-> st.heap, uids |-> st.uids, ret |-> album,
              status |-> "ok", local |-> obj]
        ELSE [heap |-> st.heap, uids |-> st.uids, ret |-> NullRef,
              status |-> IF fetch = "raise" THEN "raise" ELSE "await", local |-> obj]

ParseAlbumSeg2(st, inst, rec, local) ==
    LET uid == Str(rec.ratingKey)
        a == ProcessArtist(st, inst, FetchArtist(rec.parentRatingKey))
        obj == [local EXCEPT
                   !.artist = a.ret,
                   !.year = IF rec.year # 0 THEN rec.year ELSE 0,
                   !.description = IF rec.summary # "" THEN rec.summary ELSE ""]
        ref == NextRef(a.heap, uid)
    IN  [heap |-> Put(a.heap, ref, obj), uids |-> [a.uids EXCEPT ![uid] = ref],
         ret |-> ref, status |-> "ok", local |-> obj]

ParseAlbum(st, inst, rec, fetch) ==
    LET s1 == ParseAlbumSeg1(st, inst, rec, fetch)
    IN  IF s1.status = "await"
        THEN ParseAlbumSeg2([heap |-> s1.heap, uids |-> s1.uids], inst, rec, s1.local)
        ELSE s1

(***************************************************************************)
(* _process_track: awaits _process_album (which may await                  *)
(* _process_artist) and _process_artist between the lookup (line 534) and  *)
(* the insert (line 593).  f1, f2, f3 are the outcomes of                  *)
(* plex_track.album(), plex_album.artist() and plex_track.artist().        *)
(***************************************************************************)
ProcessTrackSeg1(st, inst, rec, f1) ==
    LET uid == Str(rec.ratingKey)
        track == st.uids[uid]
        obj == NewItem("track", uid, rec.title)
    IN  IF track # NullRef
        THEN [heap |-> st.heap, uids |-> st.uids, ret |-> track,
              status |-> "ok", local |-> obj]
        ELSE [heap |-> st.heap, uids |-> st.uids, ret |-> NullRef,
              status |-> IF f1 = "raise" THEN "raise" ELSE "await", local |-> obj]

\* lines 550-556, once _process_album has returned album
TrackAfterAlbum(s, local, f3) ==
    [heap |-> s.heap, uids |-> s.uids, ret |-> NullRef,
     status |-> IF f3 = "raise" THEN "raise" ELSE "await_artist",
     local |-> [local EXCEPT !.album = s.ret]]

ProcessTrackSeg2(st, inst, rec, local, f2, f3) ==
    LET s == ProcessAlbumSeg1(st, inst, FetchAlbum(rec.parentRatingKey), f2)
    IN  CASE s.status = "raise" ->
               [heap |-> s.heap, uids |-> s.uids, ret |-> NullRef,
                status |-> "raise", local |-> local]
          [] s.status = "await" ->
               [heap |-> s.heap, uids |-> s.uids, ret |-> s.ret,
                status |-> "await_album_artist", local |-> local]
          [] OTHER -> TrackAfterAlbum(s, local, f3)

ProcessTrackSeg2b(st, inst, rec, album, local, f3) ==
    TrackAfterAlbum(ProcessAlbumSeg2(st, inst, FetchAlbum(rec.parentRatingKey), album),
                    local, f3)

ProcessTrackSeg3(st, inst, rec, local) ==
    LET uid == Str(rec.ratingKey)
        a == ProcessArtist(st, inst, FetchArtist(rec.grandparentRatingKey))
        obj == [local EXCEPT
                   !.artists = Append(local.artists, a.ret),
                   !.provider_ids = {ProviderId(uid, inst, rec)}]
        ref == NextRef(a.heap, uid)
    IN  [heap |-> Put(a.heap, ref, obj), uids |-> [a.uids EXCEPT ![uid] = ref],
         ret |-> ref, status |-> "ok", local |-> obj]

ProcessTrack(st, inst, rec, f1, f2, f3) ==
    LET s1 == ProcessTrackSeg1(st, inst, rec, f1)
        s2 == ProcessTrackSeg2([heap |-> s1.heap, uids |-> s1.uids], inst, rec,
                               s1.local, f2, f3)
        s2b == ProcessTrackSeg2b([heap |-> s2.heap, uids |-> s2.uids], inst, rec,
                                 s2.ret, s2.local, f3)
        s2c == IF s2.status = "await_album_artist" THEN s2b ELSE s2
    IN  IF s1.status # "await" THEN s1
        ELSE IF s2c.status # "await_artist" THEN s2c
        ELSE ProcessTrackSeg3([heap |-> s2c.heap, uids |-> s2c.uids], inst, rec, s2c.local)

(***************************************************************************)
(* The library enumerations (lines 136-166).  The listing is what          *)
(* searchArtists() / searchAlbums() returned; outs[i] is the outcome of    *)
(* the server round trip made while canonicalizing record i.  The async    *)
(* generator has no try/except: an exception ends it.                      *)
(***************************************************************************)
ArtistListing == <<FetchArtist(1), FetchArtist(2)>>
AlbumListing == <<FetchAlbum(3), FetchAlbum(4)>>

RECURSIVE DrainArtists(_, _, _, _)
DrainArtists(st, inst, listing, yielded) ==
    IF Len(yielded) = Len(listing)
    THEN [heap |-> st.heap, uids |-> st.uids, yielded |-> yielded, status |-> "ok"]
    ELSE LET r == ProcessArtist(st, inst, listing[Len(yielded) + 1])
         IN  DrainArtists([heap |-> r.heap, uids |-> r.uids], inst, listing,
                          Append(yielded, r.ret))

RECURSIVE DrainAlbums(_, _, _, _, _)
DrainAlbums(st, inst, listing, outs, yielded) ==
    IF Len(yielded) = Len(listing)
    THEN [heap |-> st.heap, uids |-> st.uids, yielded |-> yielded, status |-> "ok"]
    ELSE LET i == Len(yielded) + 1
             r == ProcessAlbum(st, inst, listing[i], outs[i])
         IN  IF r.status = "raise"
             THEN [heap |-> r.heap, uids |-> r.uids, yielded |-> yielded,
                   status |-> "raise"]
             ELSE DrainAlbums([heap |-> r.heap, uids |-> r.uids], inst, listing,
                              outs, Append(yielded, r.ret))

(***************************************************************************)
(* State after construction: the class attribute _uids = {} (line 49).     *)
(***************************************************************************)
NoItem == NewItem("none", "", "")

NoCall == [op |-> "none", inst |-> "none", rec |-> NoRec, hit |-> FALSE,
           cached |-> NullRef, before |-> NoItem,
           ret |-> NullRef, status |-> "none", yielded |-> 0, listed |-> 0]

IdInit ==
    /\ heap = <<>>
    /\ uids = [u \in Uids |-> NullRef]
    /\ last = NoCall

\* bookkeeping when a canonicalization call on rec ends in result r: what
\* the cache held for the record's uid when the call began, and what the
\* call returned
Returned(op, inst, rec, r) ==
    LET uid == Str(rec.ratingKey)
        hit == uids[uid] # NullRef
    IN  /\ heap' = r.heap
        /\ uids' = r.uids
        /\ last' = [op |-> op, inst |-> inst, rec |-> rec,
                    hit |-> hit, cached |-> uids[uid],
                    before |-> IF hit THEN heap[uids[uid]] ELSE NoItem,
                    ret |-> IF r.status = "ok" THEN r.ret ELSE NullRef,
                    status |-> r.status, yielded |-> 0, listed |-> 0]

PlexCall == [kind |-> "plex", throttled |-> FALSE]

(***************************************************************************)
(* Calls of the canonicalization methods, each run to its end (none of     *)
(* them awaits anything that suspends).                                    *)
(***************************************************************************)
CallProcessArtist(inst, rec) ==
    /\ Returned("_process_artist", inst, rec, ProcessArtist(St, inst, rec))
    /\ UNCHANGED <<netops, offCache>>

CallProcessAlbum(inst, rec, fetch) ==
    /\ Returned("_process_album", inst, rec, ProcessAlbum(St, inst, rec, fetch))
    /\ UNCHANGED <<netops, offCache>>

CallParseAlbum(inst, rec, fetch) ==
    /\ Returned("_parse_album", inst, rec, ParseAlbum(St, inst, rec, fetch))
    /\ UNCHANGED <<netops, offCache>>

CallProcessTrack(inst, rec, f1, f2, f3) ==
    /\ Returned("_process_track", inst, rec, ProcessTrack(St, inst, rec, f1, f2, f3))
    /\ UNCHANGED <<netops, offCache>>

\* get_artist (lines 168-175): fetchItem on the server, then canonicalize
GetArtist(inst, k) ==
    /\ Returned("get_artist", inst, FetchArtist(k), ProcessArtist(St, inst, FetchArtist(k)))
    /\ netops' = netops \cup {PlexCall}
    /\ UNCHANGED offCache

GetLibraryArtists(inst) ==
    LET r == DrainArtists(St, inst, ArtistListing, <<>>)
    IN  /\ heap' = r.heap
        /\ uids' = r.uids
        /\ last' = [NoCall EXCEPT !.op = "get_library_artists", !.inst = inst,
                       !.status = r.status, !.yielded = Len(r.yielded),
                       !.listed = Len(ArtistListing)]
        /\ netops' = netops \cup {PlexCall}
    /\ UNCHANGED offCache
        /\ UNCHANGED offCache

GetLibraryAlbums(inst, outs) ==
    LET r == DrainAlbums(St, inst, AlbumListing, outs, <<>>)
    IN  /\ heap' = r.heap
        /\ uids' = r.uids
        /\ last' = [NoCall EXCEPT !.op = "get_library_albums", !.inst = inst,
                       !.status = r.status, !.yielded = Len(r.yielded),
                       !.listed = Len(AlbumListing)]
        /\ netops' = netops \cup {PlexCall}
    /\ UNCHANGED offCache
        /\ UNCHANGED offCache

Slots == {1, 2}
NoTask == [op |-> "none", inst |-> "none", rec |-> NoRec, pc |-> "idle",
           local |-> NoItem, album |-> NullRef, ret |-> NullRef]

TaskInit ==
    /\ tasks = [s \in Slots |-> NoTask]
    /\ started = 0

(***************************************************************************)
(* The throttler shared by the adapter's HTTP calls (line 48):             *)
(* Throttler(rate_limit=4, period=1).  acquire() drops the slots older     *)
(* than one period and hands out a slot when fewer than rate_limit are     *)
(* left; otherwise the caller sleeps and tries again.                      *)
(***************************************************************************)
RateLimit == 4
Period == 1

RECURSIVE Flush(_, _)
Flush(logs, t) ==
    IF logs # <<>> /\ t - Head(logs) > Period THEN Flush(Tail(logs), t) ELSE logs

\* a throttler that hands out a slot while rate_limit slots are in use
CanAcquireOneMore(logs, t) == Len(Flush(logs, t)) <= RateLimit

CanAcquire(logs, t) == Len(Flush(logs, t)) < RateLimit
Acquire(logs, t) == Append(Flush(logs, t), t)

Responses == {"json", "error", "status_error", "undecodable"}
\* bodies that decode to something the error test cannot be applied to:
\* the JSON value null, and an object whose status is a number
OddResponses == {"null", "status_number"}
NoHttp == [op |-> "none", tok |-> "", resp |-> "none", sent |-> FALSE,
           result |-> "none"]

HttpInit ==
    /\ now = 0
    /\ task_logs = <<>>
    /\ lastHttp = NoHttp
    /\ gets = <<>>

Tick ==
    /\ now < MaxTime
    /\ now' = now + 1
    /\ UNCHANGED <<cacheVars, netops, taskVars, task_logs, lastHttp, gets,
                   streamVars, offNet>>

\* _get_data (lines 657-697): tok is what _auth_token() returned, resp the
\* body of the response.  Waiting for a throttler slot is the guard.
GetData(tok, resp) ==
    /\ IF tok = ""
       THEN /\ lastHttp' = [NoHttp EXCEPT !.op = "_get_data", !.result = "None"]
            /\ UNCHANGED <<task_logs, netops, gets>>
       ELSE /\ CanAcquire(task_logs, now)
            /\ task_logs' = Acquire(task_logs, now)
            /\ netops' = netops \cup {[kind |-> "GET", throttled |-> TRUE]}
            /\ gets' = Append(gets, now)
            /\ lastHttp' = [op |-> "_get_data", tok |-> tok, resp |-> resp,
                            sent |-> TRUE,
                            result |-> CASE resp = "json" -> "json"
                                         [] resp \in OddResponses -> "raise"
                                         [] OTHER -> "None"]
    /\ UNCHANGED <<cacheVars, taskVars, now, streamVars, offNet>>

\* _post_data (lines 699-717): no throttler, no except clause
PostData(resp) ==
    /\ netops' = netops \cup {[kind |-> "POST", throttled |-> FALSE]}
    /\ lastHttp' = [op |-> "_post_data", tok |-> "", resp |-> resp, sent |-> TRUE,
                    result |-> CASE resp = "json" -> "json"
                                 [] resp \in OddResponses \cup {"undecodable"} -> "raise"
                                 [] OTHER -> "None"]
    /\ UNCHANGED <<cacheVars, taskVars, now, task_logs, gets, streamVars, offNet>>

(***************************************************************************)
(* get_stream_details (lines 333-370).  The backend offers a track in      *)
(* some of its formats; offer[f] is the mime type of the URL it gives for  *)
(* format f, "" when it gives none.                                        *)
(***************************************************************************)
\* the formats the loop of line 336 goes through, and the list its comment keeps
FormatIds == <<>>
PreferredFormats == <<27, 7, 6, 5>>
FormatMime == [f \in {27, 7, 6, 5} |->
                  CASE f = 5 -> "audio/mpeg" [] f = 6 -> "audio/ogg" [] OTHER -> "audio/flac"]
Offers == {[f \in {27, 7, 6, 5} |-> IF f \in on THEN FormatMime[f] ELSE ""] :
              on \in SUBSET {27, 7, 6, 5}}
ExpirySeconds == 1800

\* the format of the first attempt that yields a URL, 0 when none does
RECURSIVE FirstWithUrl(_, _)
FirstWithUrl(formats, offer) ==
    IF formats = <<>> THEN 0
    ELSE IF offer[Head(formats)] # "" THEN Head(formats)
    ELSE FirstWithUrl(Tail(formats), offer)

\* the _get_data calls the loop makes: up to and including the first success
RECURSIVE Attempts(_, _)
Attempts(formats, offer) ==
    IF formats = <<>> THEN 0
    ELSE IF offer[Head(formats)] # "" THEN 1
    ELSE 1 + Attempts(Tail(formats), offer)

RECURSIVE AcquireTimes(_, _, _)
AcquireTimes(logs, t, n) ==
    IF n = 0 THEN logs ELSE AcquireTimes(Acquire(logs, t), t, n - 1)

NoStream == [item_id |-> "", offer |-> [f \in {27, 7, 6, 5} |-> ""], status |-> "none",
             format |-> 0, content_type |-> "", expires |-> 0, created |-> 0]

\* lines 349-370 with create_task (line 358) moved ahead of the checks
StreamResultTaskFirst(item, offer, t) ==
    LET fmt == FirstWithUrl(FormatIds, offer)
        base == [NoStream EXCEPT !.item_id = item, !.offer = offer, !.created = 1]
    IN  IF fmt = 0
        THEN [base EXCEPT !.status = "notfound"]
        ELSE IF offer[fmt] \notin {"audio/mpeg", "audio/flac"}
        THEN [base EXCEPT !.status = "notfound", !.format = fmt]
        ELSE [base EXCEPT !.status = "ok", !.format = fmt,
                          !.content_type = IF offer[fmt] = "audio/mpeg"
                                           THEN "MPEG" ELSE "FLAC",
                          !.expires = t + ExpirySeconds]

\* lines 349-370: what the call ends in, and the report tasks it created
StreamResult(item, offer, t) ==
    LET fmt == FirstWithUrl(FormatIds, offer)
        base == [NoStream EXCEPT !.item_id = item, !.offer = offer]
    IN  IF fmt = 0
        THEN [base EXCEPT !.status = "notfound"]
        ELSE IF offer[fmt] \notin {"audio/mpeg", "audio/flac"}
        THEN [base EXCEPT !.status = "notfound", !.format = fmt]
        ELSE [base EXCEPT !.status = "ok", !.format = fmt,
                          !.content_type = IF offer[fmt] = "audio/mpeg"
                                           THEN "MPEG" ELSE "FLAC",
                          !.expires = t + ExpirySeconds,
                          !.created = 1]

StreamInit == lastStream = NoStream

GetStreamDetails(item, offer) ==
    LET n == Attempts(FormatIds, offer)
    IN  /\ Len(Flush(task_logs, now)) + n <= RateLimit
        /\ task_logs' = AcquireTimes(task_logs, now, n)
        /\ netops' = IF n > 0 THEN netops \cup {[kind |-> "GET", throttled |-> TRUE]}
                     ELSE netops
        /\ lastStream' = StreamResult(item, offer, now)
        /\ gets' = gets \o [i \in 1..n |-> now]
        /\ UNCHANGED <<cacheVars, taskVars, now, lastHttp, offNet>>

(***************************************************************************)
(* The provider's public calls: setup, search, get_library_tracks and      *)
(* get_artist_toptracks.  status is "ok" when the call returned and the    *)
(* name of the exception when it raised.                                   *)
(***************************************************************************)
\* what the Plex server does when PlexServer(url, token) connects and when
\* library.section('Music Test') is looked up (lines 624-626)
Backends == {"up", "refused", "unauthorized", "nosection"}

\* the media_types argument of search: None, the parameter's default (the
\* typing object Optional[List[MediaType]], line 88), or a list
MediaTypeLists == {<<>>, <<"artist">>, <<"track">>, <<"artist", "album">>}
MediaTypeArgs ==
    {[kind |-> "None", items |-> <<>>], [kind |-> "default", items |-> <<>>]}
        \cup {[kind |-> "list", items |-> l] : l \in MediaTypeLists}

TrackListing == <<Raw("track", 5, "full", 3, 1)>>

NoProv == [op |-> "none", inst |-> "none", enabled |-> FALSE, username |-> "",
           password |-> "", backend |-> "none",
           media_types |-> [kind |-> "None", items |-> <<>>],
           r1 |-> "none", r2 |-> "none",
           status |-> "none", ret |-> "none", yielded |-> 0, listed |-> 0]

ProvInit ==
    /\ plex_server = [i \in Instances |-> "None"]
    /\ plex_music = [i \in Instances |-> "None"]
    /\ lastProv = NoProv

\* _get_server (lines 620-627): connect unless a server is held already
GetServer(inst, backend) ==
    IF plex_server[inst] # "None"
    THEN [server |-> plex_server[inst], music |-> plex_music[inst], status |-> "ok"]
    ELSE CASE backend = "refused" ->
                [server |-> "None", music |-> plex_music[inst],
                 status |-> "ConnectionError"]
           [] backend = "unauthorized" ->
                [server |-> "None", music |-> plex_music[inst],
                 status |-> "Unauthorized"]
           [] backend = "nosection" ->
                [server |-> "PlexServer", music |-> plex_music[inst],
                 status |-> "NotFound"]
           [] OTHER ->
                [server |-> "PlexServer", music |-> "section", status |-> "ok"]

\* setup (lines 70-85)
Setup(inst, enabled, username, password, backend) ==
    LET call == [NoProv EXCEPT !.op = "setup", !.inst = inst, !.enabled = enabled,
                     !.username = username, !.password = password,
                     !.backend = backend]
        r == GetServer(inst, backend)
    IN  /\ IF ~enabled
           THEN /\ lastProv' = [call EXCEPT !.status = "ok", !.ret = "False"]
                /\ UNCHANGED <<plex_server, plex_music, netops>>
           ELSE IF username = "" \/ password = ""
           THEN /\ lastProv' = [call EXCEPT !.status = "LoginFailed"]
                /\ UNCHANGED <<plex_server, plex_music, netops>>
           ELSE /\ plex_server' = [plex_server EXCEPT ![inst] = r.server]
                /\ plex_music' = [plex_music EXCEPT ![inst] = r.music]
                /\ netops' = IF plex_server[inst] = "None"
                             THEN netops \cup {PlexCall} ELSE netops
                /\ lastProv' =
                     IF r.status # "ok" THEN [call EXCEPT !.status = r.status]
                     ELSE IF r.server = "None"
                     THEN [call EXCEPT !.status = "LoginFailed"]
                     ELSE [call EXCEPT !.status = "ok", !.ret = "True"]
        /\ UNCHANGED <<cacheVars, taskVars, httpVars, streamVars, playerVars,
                       configVars, laterVars>>

\* n GETs made through _get_data by one provider call: each waits for a
\* slot of the throttler
HttpGets(n) ==
    /\ Len(Flush(task_logs, now)) + n <= RateLimit
    /\ task_logs' = AcquireTimes(task_logs, now, n)
    /\ gets' = gets \o [i \in 1..n |-> now]

\* what one _get_data call returns to its caller
GetDataResult(tok, resp) == IF tok # "" /\ resp = "json" THEN "json" ELSE "None"

\* search (lines 87-134).  hits are the items under "artists" in the
\* search result; len(media_types) raises TypeError for None and for the
\* default.
Search(inst, media_types, tok, resp, hits) ==
    LET call == [NoProv EXCEPT !.op = "search", !.inst = inst,
                     !.media_types = media_types,
                     !.r1 = GetDataResult(tok, resp)]
        n == IF tok = "" THEN 0 ELSE 1
        found == IF GetDataResult(tok, resp) = "json" THEN hits ELSE <<>>
        r == DrainArtists(St, inst, found, <<>>)
    IN  /\ IF media_types.kind # "list"
           THEN /\ lastProv' = [call EXCEPT !.status = "TypeError"]
                /\ UNCHANGED <<heap, uids, task_logs, gets, netops>>
           ELSE /\ HttpGets(n)
                /\ netops' = IF n > 0
                             THEN netops \cup {[kind |-> "GET", throttled |-> TRUE]}
                             ELSE netops
                /\ heap' = r.heap
                /\ uids' = r.uids
                /\ lastProv' = [call EXCEPT !.status = "ok", !.ret = "list",
                                    !.yielded = Len(r.yielded)]
        /\ UNCHANGED <<last, taskVars, now, lastHttp, streamVars, plex_server,
                       plex_music, playerVars, configVars, laterVars>>

\* the sequence the loop of get_library_tracks iterates over (line 159)
LoopedTracks == <<>>

\* get_library_tracks (lines 155-160), drained to its end
GetLibraryTracks(inst) ==
    LET call == [NoProv EXCEPT !.op = "get_library_tracks", !.inst = inst,
                     !.listed = Len(TrackListing)]
    IN  /\ IF plex_music[inst] = "None"
           THEN /\ lastProv' = [call EXCEPT !.status = "AttributeError"]
                /\ UNCHANGED netops
           ELSE /\ netops' = netops \cup {PlexCall}
                /\ lastProv' = [call EXCEPT !.status = "ok",
                                    !.yielded = Len(LoopedTracks)]
        /\ UNCHANGED <<cacheVars, taskVars, httpVars, streamVars, plex_server,
                       plex_music, playerVars, configVars, laterVars>>

\* get_artist_toptracks (lines 235-264).  r1 and r2 are the responses to
\* the artist/get and to the catalog/search request, playlists tells
\* whether the artist/get result lists a playlist; the track lists of the
\* results are empty.
GetArtistToptracks(inst, k, tok, r1, playlists, r2) ==
    LET call == [NoProv EXCEPT !.op = "get_artist_toptracks", !.inst = inst,
                     !.r1 = GetDataResult(tok, r1)]
        sent == IF tok = "" THEN 0 ELSE 1
        first == GetDataResult(tok, r1)
        a == ProcessArtist(St, inst, FetchArtist(k))
    IN  /\ IF first = "json" /\ playlists
           THEN /\ HttpGets(sent)
                /\ lastProv' = [call EXCEPT !.status = "ok", !.ret = "list"]
                /\ netops' = netops \cup {[kind |-> "GET", throttled |-> TRUE]}
                /\ UNCHANGED <<heap, uids>>
           ELSE IF plex_music[inst] = "None"
           THEN /\ HttpGets(sent)
                /\ lastProv' = [call EXCEPT !.status = "AttributeError"]
                /\ netops' = IF sent > 0
                             THEN netops \cup {[kind |-> "GET", throttled |-> TRUE]}
                             ELSE netops
                /\ UNCHANGED <<heap, uids>>
           ELSE /\ HttpGets(2 * sent)
                /\ heap' = a.heap
                /\ uids' = a.uids
                /\ netops' = netops \cup {PlexCall}
                                 \cup IF sent > 0
                                      THEN {[kind |-> "GET", throttled |-> TRUE]}
                                      ELSE {}
                /\ lastProv' =
                     IF GetDataResult(tok, r2) = "None"
                     THEN [call EXCEPT !.r2 = "None", !.status = "TypeError"]
                     ELSE [call EXCEPT !.r2 = "json", !.status = "ok",
                                       !.ret = "list"]
        /\ UNCHANGED <<last, taskVars, now, lastHttp, streamVars, plex_server,
                       plex_music, playerVars, configVars, laterVars>>

(***************************************************************************)
(* The demonstration player (examples/full.py, lines 153-208) and the      *)
(* dispatch of player commands by name (web.py, lines 225-242 and          *)
(* 293-304).  A Python value is a record [type, val]: val is 0 for None,   *)
(* 0 or 1 for a bool, the number for an int and an index into Texts for a  *)
(* str.                                                                    *)
(***************************************************************************)
Texts == <<"", "50", "a.mp3", "power", "0">>
PyNone == [type |-> "none", val |-> 0]
PyBool(b) == [type |-> "bool", val |-> IF b THEN 1 ELSE 0]
PyInt(n) == [type |-> "int", val |-> n]
PyStr(t) == [type |-> "str", val |-> CHOOSE i \in DOMAIN Texts : Texts[i] = t]

\* bool(v)
Truthy(v) ==
    CASE v.type = "none" -> FALSE
      [] v.type = "str" -> Texts[v.val] # ""
      [] OTHER -> v.val # 0

\* TestPlayer.__init__ (lines 156-165)
NewPlayer(player_id) ==
    [player_id |-> player_id, name |-> player_id, powered |-> PyBool(TRUE),
     elapsed_time |-> 0, current_url |-> PyStr(""), state |-> "IDLE",
     available |-> TRUE, volume_level |-> PyInt(100)]

play_url(p, url) == [p EXCEPT !.current_url = url]
stop(p) == [p EXCEPT !.state = "IDLE", !.current_url = PyNone, !.elapsed_time = 0]
play(p) == [p EXCEPT !.state = "PLAYING", !.elapsed_time = 1]
pause(p) == [p EXCEPT !.state = "PAUSED"]
power(p, powered) == [p EXCEPT !.powered = powered, !.current_url = PyNone]
volume_set(p, volume_level) == [p EXCEPT !.volume_level = volume_level]

\* the commands of the player capability contract and their parameters
PlayerCommands == {"play_url", "stop", "play", "pause", "power", "volume_set"}
Arity(cmd) == IF cmd \in {"play_url", "power", "volume_set", "__init__"} THEN 1 ELSE 0

\* the method cmd of player p called with argument arg
Method(p, cmd, arg) ==
    CASE cmd = "play_url" -> play_url(p, arg)
      [] cmd = "stop" -> stop(p)
      [] cmd = "play" -> play(p)
      [] cmd = "pause" -> pause(p)
      [] cmd = "power" -> power(p, arg)
      [] cmd = "volume_set" -> volume_set(p, arg)
      [] cmd = "__init__" -> NewPlayer(Texts[arg.val])
      [] OTHER -> p

NoCmd == [path |-> "none", player_id |-> "", cmd |-> "", cmds |-> <<>>,
          arg |-> PyNone,
          invoked |-> "none", status |-> "none", response |-> "none"]

PlayerInit ==
    /\ player = NewPlayer("test1")
    /\ lastCmd = NoCmd

\* a command of the contract called on the player object itself
DirectArgs(cmd) ==
    CASE cmd = "play_url" -> {PyStr("a.mp3")}
      [] cmd = "power" -> {PyBool(TRUE), PyBool(FALSE)}
      [] cmd = "volume_set" -> {PyInt(0), PyInt(100), PyInt(101)}
      [] OTHER -> {PyNone}

CallPlayer(cmd, arg) ==
    /\ player' = Method(player, cmd, arg)
    /\ lastCmd' = [NoCmd EXCEPT !.path = "call", !.player_id = player.player_id,
                       !.cmd = cmd, !.arg = arg, !.invoked = cmd,
                       !.status = "ok"]
    /\ UNCHANGED <<cacheVars, netops, taskVars, httpVars, streamVars, provVars,
                   configVars, laterVars>>

\* the names a request can carry as its command, and the arguments: the
\* path segment after the command, None when there is none
Names == PlayerCommands \cup {"__init__", "player_id", "bogus"}
WireArgs == {PyNone, PyStr("50")}
PlayerIds == {"test1", "nobody"}

\* mass.player.get_player: whether a player is registered under the id
Registered(player_id) == player_id = "test1"

\* getattr(player, cmd, None), player being None when none is registered
Attr(found, cmd) ==
    IF found
    THEN CASE cmd \in PlayerCommands \cup {"__init__"} -> "method"
           [] cmd = "player_id" -> "str"
           [] OTHER -> "absent"
    ELSE IF cmd = "__init__" THEN "method" ELSE "absent"

\* the branches on player_cmd and cmd_args (lines 233-239, 300-304) and the
\* awaited call
Dispatch(p, found, cmd, arg) ==
    LET given == IF Truthy(arg) THEN 1 ELSE 0
    IN  CASE Attr(found, cmd) = "absent" ->
               [player |-> p, invoked |-> "none", status |-> "ignored"]
          [] Attr(found, cmd) = "str" ->
               [player |-> p, invoked |-> "none", status |-> "TypeError"]
          [] OTHER ->
               IF ~found \/ given # Arity(cmd)
               THEN [player |-> p, invoked |-> "none", status |-> "TypeError"]
               ELSE [player |-> Method(p, cmd, arg), invoked |-> cmd,
                     status |-> IF cmd = "__init__" THEN "TypeError" ELSE "ok"]

\* Web.player_command (lines 225-242)
PlayerCommand(player_id, cmd, cmd_args) ==
    LET found == Registered(player_id)
        r == IF found THEN Dispatch(player, TRUE, cmd, cmd_args)
             ELSE [player |-> player, invoked |-> "none", status |-> "ignored"]
    IN  /\ player' = r.player
        /\ lastCmd' = [NoCmd EXCEPT !.path = "http", !.player_id = player_id,
                           !.cmd = cmd, !.arg = cmd_args, !.invoked = r.invoked,
                           !.status = r.status,
                           !.response = CASE r.status = "ok" -> "200 null"
                                          [] r.status = "ignored" -> "200 false"
                                          [] OTHER -> "500"]
        /\ UNCHANGED <<cacheVars, netops, taskVars, httpVars, streamVars,
                       provVars, configVars, laterVars>>

\* Web.websocket_handler on the message players/{player_id}/cmd/{cmd} or
\* players/{player_id}/cmd/{cmd}/{cmd_args} (lines 293-304); an exception
\* ends the connection (lines 305-310)
WsCommand(player_id, cmd, cmd_args) ==
    LET r == Dispatch(player, Registered(player_id), cmd, cmd_args)
    IN  /\ player' = r.player
        /\ lastCmd' = [NoCmd EXCEPT !.path = "ws", !.player_id = player_id,
                           !.cmd = cmd, !.arg = cmd_args, !.invoked = r.invoked,
                           !.status = r.status,
                           !.response = IF r.status = "TypeError"
                                        THEN "closed" ELSE "none"]
        /\ UNCHANGED <<cacheVars, netops, taskVars, httpVars, streamVars,
                       provVars, configVars, laterVars>>

(***************************************************************************)
(* mass.config and Web.save_config (web.py, lines 316-335).  A config is   *)
(* a dict of scalars and of dicts of scalars; it is written here as a      *)
(* function on all the keys a request can name, Absent marking a key the   *)
(* dict does not have.                                                     *)
(***************************************************************************)
Absent == 0
ConfigValues == {1, 2}
TopKeys == {"base", "flag", "extra"}
SubKeys == {"a", "b", "c"}
DictKeys == {"base"}
NoSub == [k \in SubKeys |-> Absent]

\* the config the server starts with: base = {a: 1, b: 1}, flag = 1
StartConfig ==
    [k \in TopKeys |->
        CASE k = "base" -> [present |-> TRUE, val |-> Absent,
                            sub |-> [NoSub EXCEPT !["a"] = 1, !["b"] = 1]]
          [] k = "flag" -> [present |-> TRUE, val |-> 1, sub |-> NoSub]
          [] OTHER -> [present |-> FALSE, val |-> Absent, sub |-> NoSub]]

\* the bodies a request can post: any subset of the top-level keys, any
\* subset of the sub-keys under base
PostedConfigs ==
    {[k \in TopKeys |->
         IF k \in DictKeys
         THEN [present |-> posted, val |-> Absent,
               sub |-> IF posted THEN d ELSE NoSub]
         ELSE [present |-> (IF k = "flag" THEN f ELSE e) # Absent,
               val |-> IF k = "flag" THEN f ELSE e, sub |-> NoSub]] :
       posted \in BOOLEAN, d \in [SubKeys -> ConfigValues \cup {Absent}],
       f \in ConfigValues \cup {Absent}, e \in {Absent, 1}}

\* the order in which mass.config.items() gives the keys of the config
KeyOrders == {<<"base", "flag">>, <<"flag", "base">>}

\* the inner loop (lines 323-327): the sub-keys the request has take the
\* posted value
MergeSub(cur, new) ==
    [k \in SubKeys |-> IF cur[k] # Absent /\ new[k] # Absent THEN new[k] ELSE cur[k]]

\* the outer loop (lines 321-331) from the i-th key on
RECURSIVE MergeConfig(_, _, _, _)
MergeConfig(cfg, new, order, i) ==
    IF i > Len(order) THEN [config |-> cfg, status |-> "success"]
    ELSE LET key == order[i]
         IN  IF key \in DictKeys
             THEN IF ~new[key].present
                  THEN [config |-> cfg, status |-> "KeyError"]
                  ELSE MergeConfig(
                          [cfg EXCEPT ![key].sub = MergeSub(cfg[key].sub, new[key].sub)],
                          new, order, i + 1)
             ELSE IF new[key].present
                  THEN MergeConfig([cfg EXCEPT ![key].val = new[key].val],
                                   new, order, i + 1)
                  ELSE MergeConfig(cfg, new, order, i + 1)

NoSave == [posted |-> StartConfig, before |-> StartConfig,
           order |-> <<"base", "flag">>, status |-> "none", saved |-> FALSE]

ConfigInit ==
    /\ config = StartConfig
    /\ lastSave = NoSave

SaveConfig(new_config, order) ==
    LET r == MergeConfig(config, new_config, order, 1)
    IN  /\ config' = r.config
        /\ lastSave' = [posted |-> new_config, before |-> config, order |-> order,
                        status |-> r.status,
                        saved |-> r.status = "success" /\ r.config # config]
        /\ UNCHANGED <<cacheVars, netops, taskVars, httpVars, streamVars,
                       provVars, playerVars, laterVars>>

(***************************************************************************)
(* _get_all_items (lines 636-655), one loop iteration per step: the        *)
(* request made through _get_data and what the loop does with its result.  *)
(* A result is None or a decoded page; a page has the key or not, and n    *)
(* items under it.  An item is named by the page it came with and its      *)
(* index in that page.                                                     *)
(***************************************************************************)
Limit == 50
NoneResult == [kind |-> "None", haskey |-> FALSE, n |-> 0]
Pages ==
    {[kind |-> "json", haskey |-> FALSE, n |-> 0]}
        \cup {[kind |-> "json", haskey |-> TRUE, n |-> n] : n \in {0, 1, Limit - 1, Limit}}

\* the tests of lines 646-649: nothing to take from this result
NoItems(result) == result.kind = "None" \/ ~result.haskey \/ result.n = 0

\* a page counts as the last one already when it is full
ShortPageOrFull(result) == result.n <= Limit

\* the test of line 653
ShortPage(result) == result.n < Limit

\* positions counted from one within each page
WithPagePositions(all_items, p, n) ==
    all_items \o [i \in 1..n |-> [page |-> p, idx |-> i, position |-> i]]

\* the loop of lines 650-652 over the n items of the p-th page fetched
WithPositions(all_items, p, n) ==
    all_items \o [i \in 1..n |-> [page |-> p, idx |-> i,
                                   position |-> Len(all_items) + i]]

NoPaging == [pc |-> "idle", offset |-> 0, requests |-> <<>>, results |-> <<>>,
             all_items |-> <<>>]

PageInit == paging = NoPaging

\* the call begins (lines 638-640)
StartGetAllItems ==
    /\ paging.pc # "running"
    /\ paging' = [NoPaging EXCEPT !.pc = "running"]
    /\ UNCHANGED <<cacheVars, netops, taskVars, httpVars, streamVars, provVars,
                   playerVars, configVars, wsVars, queueVars>>

\* one iteration (lines 641-654)
FetchPage(tok, resp, page) ==
    LET result == IF GetDataResult(tok, resp) = "json" THEN page ELSE NoneResult
        n == IF tok = "" THEN 0 ELSE 1
        taken == WithPositions(paging.all_items, Len(paging.results) + 1, result.n)
    IN  /\ paging.pc = "running"
        /\ Len(paging.results) < MaxPages \/ NoItems(result) \/ ShortPage(result)
        /\ HttpGets(n)
        /\ netops' = IF n > 0 THEN netops \cup {[kind |-> "GET", throttled |-> TRUE]}
                     ELSE netops
        /\ lastHttp' = IF n = 0
                       THEN [NoHttp EXCEPT !.op = "_get_data", !.result = "None"]
                       ELSE [op |-> "_get_data", tok |-> tok, resp |-> resp,
                             sent |-> TRUE, result |-> result.kind]
        /\ paging' =
             [paging EXCEPT
                 !.requests = Append(@, [offset |-> paging.offset, limit |-> Limit]),
                 !.offset = @ + Limit,
                 !.results = Append(@, result),
                 !.all_items = IF NoItems(result) THEN @ ELSE taken,
                 !.pc = IF NoItems(result) \/ ShortPage(result)
                        THEN "done" ELSE "running"]
        /\ UNCHANGED <<cacheVars, taskVars, now, streamVars, provVars, playerVars,
                       configVars, wsVars, queueVars>>

(***************************************************************************)
(* Web.json_rpc (web.py, lines 337-381).  cmds is the list of words in     *)
(* params[1]; cmd_str is the words joined by blanks, so two command        *)
(* strings are equal when their word lists are.                            *)
(***************************************************************************)
CmdLists ==
    {<<"play">>, <<"pause">>, <<"stop">>, <<"next">>, <<"previous">>,
     <<"power">>, <<"power", "0">>, <<"playlist", "index", "+1">>,
     <<"playlist", "index", "-1">>, <<"mixer", "volume", "50">>,
     <<"mixer", "muting", "1">>, <<"mixer", "muting", "0">>,
     <<"button", "volup">>, <<"button", "voldown">>, <<"button", "power">>,
     <<"bogus">>}

\* 'power' in cmd_str: some word has it (no word of CmdLists has it as a
\* proper part)
HasPower(cmds) == \E i \in DOMAIN cmds : cmds[i] = "power"

\* 'mixer volume' in cmd_str
HasMixerVolume(cmds) ==
    \E i \in DOMAIN cmds :
        i < Len(cmds) /\ cmds[i] = "mixer" /\ cmds[i + 1] = "volume"

\* the chain of tests of lines 350-380: the method called and its argument
RpcBranch(cmds) ==
    CASE cmds = <<"play">> -> [method |-> "play", arg |-> PyNone]
      [] cmds = <<"pause">> -> [method |-> "pause", arg |-> PyNone]
      [] cmds = <<"stop">> -> [method |-> "stop", arg |-> PyNone]
      [] cmds = <<"next">> -> [method |-> "next", arg |-> PyNone]
      [] cmds = <<"previous">> -> [method |-> "previous", arg |-> PyNone]
      [] OTHER ->
         IF HasPower(cmds)
         THEN [method |-> "power",
               arg |-> IF Len(cmds) > 1 THEN PyStr(cmds[2]) ELSE PyNone]
         ELSE CASE cmds = <<"playlist", "index", "+1">> ->
                     [method |-> "next", arg |-> PyNone]
                [] cmds = <<"playlist", "index", "-1">> ->
                     [method |-> "previous", arg |-> PyNone]
                [] OTHER ->
                   IF HasMixerVolume(cmds)
                   THEN [method |-> "volume_set", arg |-> PyStr(cmds[3])]
                   ELSE CASE cmds = <<"mixer", "muting", "1">> ->
                               [method |-> "volume_mute", arg |-> PyBool(TRUE)]
                          [] cmds = <<"mixer", "muting", "0">> ->
                               [method |-> "volume_mute", arg |-> PyBool(FALSE)]
                          [] cmds = <<"button", "volup">> ->
                               [method |-> "volume_up", arg |-> PyNone]
                          [] cmds = <<"button", "voldown">> ->
                               [method |-> "volume_down", arg |-> PyNone]
                          [] cmds = <<"button", "power">> ->
                               [method |-> "power_toggle", arg |-> PyNone]
                          [] OTHER -> [method |-> "none", arg |-> PyNone]

\* Web.json_rpc: with no player under the id the attribute lookup on None
\* raises
JsonRpc(player_id, cmds) ==
    LET b == RpcBranch(cmds)
        call == [NoCmd EXCEPT !.path = "jsonrpc", !.player_id = player_id,
                     !.cmds = cmds]
    IN  /\ IF b.method = "none"
           THEN /\ lastCmd' = [call EXCEPT !.status = "ok",
                                  !.response = "command not supported"]
                /\ UNCHANGED player
           ELSE IF ~Registered(player_id)
           THEN /\ lastCmd' = [call EXCEPT !.status = "AttributeError",
                                  !.response = "500"]
                /\ UNCHANGED player
           ELSE /\ player' = Method(player, b.method, b.arg)
                /\ lastCmd' = [call EXCEPT !.invoked = b.method, !.arg = b.arg,
                                  !.status = "ok", !.response = "success"]
        /\ UNCHANGED <<cacheVars, netops, taskVars, httpVars, streamVars,
                       provVars, configVars, laterVars>>

(***************************************************************************)
(* Web.player_queue (web.py, lines 256-266) on a queue of n items, the     *)
(* i-th being i.                                                           *)
(***************************************************************************)
Min(a, b) == IF a < b THEN a ELSE b
Max(a, b) == IF a < b THEN b ELSE a

\* items[lo:hi] for lo, hi >= 0
PySlice(items, lo, hi) ==
    [i \in 1..Max(0, Min(hi, Len(items)) - lo) |-> items[lo + i]]

NoQueue == [n |-> 0, offset |-> 0, limit |-> 0, status |-> "none", result |-> <<>>]

QueueInit == lastQueue = NoQueue

PlayerQueue(n, offset, limit) ==
    /\ lastQueue' = [n |-> n, offset |-> offset, limit |-> limit, status |-> "ok",
                     result |-> PySlice([i \in 1..n |-> i], offset, limit)]
    /\ UNCHANGED <<cacheVars, netops, taskVars, httpVars, streamVars, provVars,
                   playerVars, configVars, pageVars, wsVars>>

(***************************************************************************)
(* One WebSocket connection after the other through                        *)
(* Web.websocket_handler (web.py, lines 271-310).  The callback id of the  *)
(* n-th connection is n; 0 stands for None.                                *)
(***************************************************************************)
NoConn == [id |-> 0, pc |-> "none", cb_id |-> 0, registered |-> FALSE,
           removes |-> <<>>]

WsInit ==
    /\ conn = NoConn
    /\ listeners = {}

\* what ws.prepare and mass.add_event_listener do (lines 277, 282)
ConnectOutcomes == {"ok", "prepare_raises", "add_listener_raises"}

\* the finally clause (lines 307-308) on connection c
Finally(c) ==
    /\ conn' = [c EXCEPT !.pc = "closed", !.removes = Append(@, c.cb_id)]
    /\ listeners' = listeners \ {c.cb_id}

\* lines 273-282: the handler starts; an exception goes to the except
\* clause and from there to the finally clause
WsConnect(outcome) ==
    LET c == [NoConn EXCEPT !.id = conn.id + 1]
    IN  /\ conn.pc # "open"
        /\ conn.id < MaxConns
        /\ IF outcome = "ok"
           THEN /\ conn' = [c EXCEPT !.pc = "open", !.cb_id = c.id,
                                     !.registered = TRUE]
                /\ listeners' = listeners \cup {c.id}
           ELSE Finally(c)
        /\ UNCHANGED <<cacheVars, netops, taskVars, httpVars, streamVars,
                       provVars, playerVars, configVars, pageVars, queueVars>>

\* the message 'players' (lines 288-292) when send_json raises
WsSendFails ==
    /\ conn.pc = "open"
    /\ Finally(conn)
    /\ UNCHANGED <<cacheVars, netops, taskVars, httpVars, streamVars,
                   provVars, playerVars, configVars, pageVars, queueVars>>

\* a command message on the open connection (lines 293-304)
WsCmdMessage(player_id, cmd, cmd_args) ==
    LET r == Dispatch(player, Registered(player_id), cmd, cmd_args)
    IN  /\ conn.pc = "open"
        /\ player' = r.player
        /\ lastCmd' = [NoCmd EXCEPT !.path = "ws", !.player_id = player_id,
                           !.cmd = cmd, !.arg = cmd_args, !.invoked = r.invoked,
                           !.status = r.status,
                           !.response = IF r.status = "TypeError"
                                        THEN "closed" ELSE "none"]
        /\ IF r.status = "TypeError" THEN Finally(conn)
           ELSE UNCHANGED <<conn, listeners>>
        /\ UNCHANGED <<cacheVars, netops, taskVars, httpVars, streamVars,
                       provVars, configVars, pageVars, queueVars>>

\* the peer closes the connection: the loop of line 284 ends
WsEnd ==
    /\ conn.pc = "open"
    /\ Finally(conn)
    /\ UNCHANGED <<cacheVars, netops, taskVars, httpVars, streamVars,
                   provVars, playerVars, configVars, pageVars, queueVars>>

Init ==
    /\ IdInit
    /\ netops = {}
    /\ TaskInit
    /\ HttpInit
    /\ StreamInit
    /\ ProvInit
    /\ PlayerInit
    /\ ConfigInit
    /\ PageInit
    /\ QueueInit
    /\ WsInit

Next ==
    \/ \E inst \in Instances, rec \in ArtistRecs : CallProcessArtist(inst, rec)
    \/ \E inst \in AlbumInstances, rec \in AlbumRecs, f \in Outcomes :
          CallProcessAlbum(inst, rec, f)
    \/ \E inst \in AlbumInstances, rec \in AlbumRecs, f \in Outcomes :
          CallParseAlbum(inst, rec, f)
    \/ \E inst \in AlbumInstances, rec \in TrackRecs, f1, f2, f3 \in Outcomes :
          CallProcessTrack(inst, rec, f1, f2, f3)
    \/ \E inst \in Instances, k \in ArtistKeys : GetArtist(inst, k)
    \/ \E inst \in Instances : GetLibraryArtists(inst)
    \/ \E inst \in AlbumInstances, outs \in [1..Len(AlbumListing) -> Outcomes] :
          GetLibraryAlbums(inst, outs)

Spec == Init /\ [][Next]_vars

(***************************************************************************)
(* The same coroutines with every await taken as a suspension point: a     *)
(* coroutine runs from one await to the next, and another coroutine may    *)
(* run in between.  pc names the await the coroutine is suspended at.      *)
(***************************************************************************)
Free(s) == tasks[s].pc \in {"idle", "done", "raised"}

\* the coroutine in slot s has run segment result r and is now at pc
Ran(s, t, r, pc) ==
    /\ heap' = r.heap
    /\ uids' = r.uids
    /\ tasks' = [tasks EXCEPT ![s] = [t EXCEPT !.pc = pc]]
    /\ UNCHANGED <<last, netops, httpVars, streamVars, offNet>>

PcOf(status) ==
    CASE status = "ok" -> "done"
      [] status = "raise" -> "raised"
      [] OTHER -> status

Begin(s) ==
    /\ Free(s)
    /\ started < MaxCalls
    /\ started' = started + 1

TaskProcessArtist(s, inst, rec) ==
    LET r == ProcessArtist(St, inst, rec)
    IN  /\ Begin(s)
        /\ Ran(s, [NoTask EXCEPT !.op = "_process_artist", !.inst = inst, !.rec = rec,
                      !.ret = r.ret], r, "done")

TaskProcessAlbum(s, inst, rec, fetch) ==
    LET r == ProcessAlbumSeg1(St, inst, rec, fetch)
    IN  /\ Begin(s)
        /\ Ran(s, [NoTask EXCEPT !.op = "_process_album", !.inst = inst, !.rec = rec,
                      !.album = r.ret,
                      !.ret = IF r.status = "ok" THEN r.ret ELSE NullRef],
               r, PcOf(r.status))

ResumeProcessAlbum(s) ==
    LET t == tasks[s]
        r == ProcessAlbumSeg2(St, t.inst, t.rec, t.album)
    IN  /\ t.op = "_process_album" /\ t.pc = "await"
        /\ Ran(s, [t EXCEPT !.ret = r.ret], r, "done")
        /\ UNCHANGED started

TaskParseAlbum(s, inst, rec, fetch) ==
    LET r == ParseAlbumSeg1(St, inst, rec, fetch)
    IN  /\ Begin(s)
        /\ Ran(s, [NoTask EXCEPT !.op = "_parse_album", !.inst = inst, !.rec = rec,
                      !.local = IF r.status = "await" THEN r.local ELSE NoItem,
                      !.ret = r.ret],
               r, PcOf(r.status))

ResumeParseAlbum(s) ==
    LET t == tasks[s]
        r == ParseAlbumSeg2(St, t.inst, t.rec, t.local)
    IN  /\ t.op = "_parse_album" /\ t.pc = "await"
        /\ Ran(s, [t EXCEPT !.ret = r.ret, !.local = NoItem], r, "done")
        /\ UNCHANGED started

TaskProcessTrack(s, inst, rec, f1) ==
    LET r == ProcessTrackSeg1(St, inst, rec, f1)
    IN  /\ Begin(s)
        /\ Ran(s, [NoTask EXCEPT !.op = "_process_track", !.inst = inst, !.rec = rec,
                      !.local = IF r.status = "await" THEN r.local ELSE NoItem,
                      !.ret = r.ret],
               r, PcOf(r.status))

\* the awaited _process_album starts (line 549)
ResumeTrackAlbum(s, f2, f3) ==
    LET t == tasks[s]
        r == ProcessTrackSeg2(St, t.inst, t.rec, t.local, f2, f3)
    IN  /\ t.op = "_process_track" /\ t.pc = "await"
        /\ Ran(s, [t EXCEPT !.album = r.ret,
                            !.local = IF r.status = "raise" THEN NoItem ELSE r.local],
               r, PcOf(r.status))
        /\ UNCHANGED started

\* the _process_artist awaited inside that _process_album runs (line 480)
ResumeTrackAlbumArtist(s, f3) ==
    LET t == tasks[s]
        r == ProcessTrackSeg2b(St, t.inst, t.rec, t.album, t.local, f3)
    IN  /\ t.op = "_process_track" /\ t.pc = "await_album_artist"
        /\ Ran(s, [t EXCEPT !.album = NullRef,
                            !.local = IF r.status = "raise" THEN NoItem ELSE r.local],
               r, PcOf(r.status))
        /\ UNCHANGED started

\* the awaited _process_artist runs (line 556), then the insert (line 593)
ResumeTrackArtist(s) ==
    LET t == tasks[s]
        r == ProcessTrackSeg3(St, t.inst, t.rec, t.local)
    IN  /\ t.op = "_process_track" /\ t.pc = "await_artist"
        /\ Ran(s, [t EXCEPT !.ret = r.ret, !.local = NoItem], r, "done")
        /\ UNCHANGED started

AwaitNext ==
    \/ \E s \in Slots, inst \in AlbumInstances, rec \in ArtistRecs :
          TaskProcessArtist(s, inst, rec)
    \/ \E s \in Slots, inst \in AlbumInstances, rec \in AlbumRecs, f \in Outcomes :
          TaskProcessAlbum(s, inst, rec, f)
    \/ \E s \in Slots : ResumeProcessAlbum(s)
    \/ \E s \in Slots, inst \in AlbumInstances, rec \in AlbumRecs, f \in Outcomes :
          TaskParseAlbum(s, inst, rec, f)
    \/ \E s \in Slots : ResumeParseAlbum(s)
    \/ \E s \in Slots, inst \in AlbumInstances, rec \in TrackRecs, f1 \in Outcomes :
          TaskProcessTrack(s, inst, rec, f1)
    \/ \E s \in Slots, f2, f3 \in Outcomes : ResumeTrackAlbum(s, f2, f3)
    \/ \E s \in Slots, f3 \in Outcomes : ResumeTrackAlbumArtist(s, f3)
    \/ \E s \in Slots : ResumeTrackArtist(s)

SpecAwait == Init /\ [][AwaitNext]_vars

(***************************************************************************)
(* The adapter's network operations: the HTTP helpers behind the           *)
(* throttler and a call that goes to the Plex server.                      *)
(***************************************************************************)
NetNext ==
    \/ Tick
    \/ \E tok \in {"", "token"}, resp \in Responses \cup OddResponses :
          GetData(tok, resp)
    \/ \E resp \in Responses \cup OddResponses : PostData(resp)
    \/ \E k \in ArtistKeys : GetArtist("plexA", k)

SpecNet == Init /\ [][NetNext]_vars

StreamNext ==
    \/ Tick
    \/ \E tok \in {"", "token"}, resp \in Responses : GetData(tok, resp)
    \/ \E k \in TrackKeys, offer \in Offers : GetStreamDetails(Str(k), offer)

SpecStream == Init /\ [][StreamNext]_vars

(***************************************************************************)
(* The provider's public calls, made within one period of the throttler.   *)
(***************************************************************************)
ProvNext ==
    \/ \E inst \in Instances, enabled \in BOOLEAN, username \in {"", "url"},
          password \in {"", "token"}, backend \in Backends :
          Setup(inst, enabled, username, password, backend)
    \/ \E media_types \in MediaTypeArgs, tok \in {"", "token"},
          resp \in Responses, hits \in {<<>>, ArtistListing} :
          Search("plexA", media_types, tok, resp, hits)
    \/ GetLibraryTracks("plexA")
    \/ \E k \in ArtistKeys, tok \in {"", "token"}, r1, r2 \in Responses,
          playlists \in BOOLEAN :
          GetArtistToptracks("plexA", k, tok, r1, playlists, r2)

SpecProv == Init /\ [][ProvNext]_vars

(***************************************************************************)
(* A registered player driven by direct calls and by the two dispatch      *)
(* paths of the web server.                                                *)
(***************************************************************************)
PlayerNext ==
    \/ \E cmd \in PlayerCommands : \E arg \in DirectArgs(cmd) : CallPlayer(cmd, arg)
    \/ \E player_id \in PlayerIds, cmd \in Names, cmd_args \in WireArgs :
          PlayerCommand(player_id, cmd, cmd_args)
    \/ \E player_id \in PlayerIds, cmd \in Names, cmd_args \in WireArgs :
          WsCommand(player_id, cmd, cmd_args)
    \/ \E player_id \in PlayerIds, cmds \in CmdLists : JsonRpc(player_id, cmds)

SpecPlayer == Init /\ [][PlayerNext]_vars

(***************************************************************************)
(* Paged listings: calls of _get_all_items, one after the other, with the  *)
(* clock of the throttler.                                                 *)
(***************************************************************************)
FetchAnyPage ==
    \E tok \in {"", "token"}, resp \in Responses, page \in Pages :
        FetchPage(tok, resp, page)

PageNext ==
    \/ Tick
    \/ StartGetAllItems
    \/ FetchAnyPage

SpecPage == Init /\ [][PageNext]_vars /\ WF_vars(FetchAnyPage)

WsNext ==
    \/ \E outcome \in ConnectOutcomes : WsConnect(outcome)
    \/ WsSendFails
    \/ \E player_id \in PlayerIds, cmd \in {"play", "pause", "stop", "player_id", "bogus"} :
          WsCmdMessage(player_id, cmd, PyNone)
    \/ WsEnd

SpecWs == Init /\ [][WsNext]_vars

(***************************************************************************)
(* Canonicalizations by two instances whose servers number their items     *)
(* independently: on the server of plexB the id 3 is an artist, on that of *)
(* plexA an album.                                                         *)
(***************************************************************************)
ForeignArtists == {Raw("artist", k, "full", 0, 0) : k \in AlbumKeys}

VariantNext ==
    \/ \E rec \in ArtistRecs : CallProcessArtist("plexA", rec)
    \/ \E rec \in ForeignArtists : CallProcessArtist("plexB", rec)
    \/ \E rec \in AlbumRecs, f \in Outcomes : CallProcessAlbum("plexA", rec, f)
    \/ \E rec \in TrackRecs, f1, f2, f3 \in Outcomes :
          CallProcessTrack("plexA", rec, f1, f2, f3)

SpecVariant == Init /\ [][VariantNext]_vars

QueueNext ==
    \E n \in 0..MaxQueue, offset \in 0..MaxQueue, limit \in 0..MaxQueue :
        PlayerQueue(n, offset, limit)

SpecQueue == Init /\ [][QueueNext]_vars

ConfigNext ==
    \E new_config \in PostedConfigs, order \in KeyOrders : SaveConfig(new_config, order)

SpecConfig == Init /\ [][ConfigNext]_vars

(***************************************************************************)
(* Properties of the identity cache.                                       *)
(***************************************************************************)
Canonicalizations ==
    {"_process_artist", "_process_album", "_parse_album", "_process_track", "get_artist"}

\* C1: over any sequence of canonicalization calls at most one object is
\* ever constructed per native id, and it is the one the cache holds: no
\* call constructs a second object for a cached id or replaces its entry.
C1_OneObjectPerUid ==
    \A r \in DOMAIN heap : r[2] = 1 /\ uids[r[1]] = r

\* a call found its id cached while all five native ids were cached
C1_Witness ==
    /\ last.op = "_process_track" /\ last.hit /\ last.status = "ok"
    /\ \A u \in Uids : uids[u] # NullRef

\* the nested references of an object
Refs(o) == [artist |-> o.artist, album |-> o.album, artists |-> o.artists]

\* C2: a second _process_album / _process_track call for a native id that
\* an earlier call returned (so its album artist is set) returns the same
\* instance with the same nested album / artist references as before.
C2_SameNestedRefs ==
    (/\ last.op \in {"_process_album", "_process_track"}
     /\ last.status = "ok" /\ last.hit
     /\ last.before.kind = "album" => last.before.artist # NullRef)
        => /\ last.ret = last.cached
           /\ Refs(heap[last.ret]) = Refs(last.before)

\* every field of o that was set has the same value in n
Kept(o, n) ==
    /\ n.kind = o.kind /\ n.item_id = o.item_id
    /\ o.name # "" => n.name = o.name
    /\ o.year # 0 => n.year = o.year
    /\ o.description # "" => n.description = o.description
    /\ o.artist # NullRef => n.artist = o.artist
    /\ o.album # NullRef => n.album = o.album
    /\ o.artists # <<>> => n.artists = o.artists
    /\ o.provider_ids # {} => n.provider_ids = o.provider_ids

\* C3: on a cache hit the call returns the cached instance and every field
\* that was already set, the album's artist reference included, is
\* unchanged, whatever the raw record holds.
C3_HitLeavesFields ==
    (last.op \in Canonicalizations /\ last.hit /\ last.status = "ok")
        => /\ last.ret = last.cached
           /\ Kept(last.before, heap[last.ret])

\* C4: what a call through one adapter instance returns was canonicalized
\* through that instance: it carries no other instance's provider id.
C4_CachePerInstance ==
    (last.op \in Canonicalizations /\ last.status = "ok")
        => \A p \in heap[last.ret].provider_ids : p.prov_id = last.inst

\* n lacks something o knew
Erased(o, n) ==
    \/ o.name # "" /\ n.name = ""
    \/ o.year # 0 /\ n.year = 0
    \/ o.description # "" /\ n.description = ""
    \/ o.artist # NullRef /\ n.artist = NullRef
    \/ ~(o.provider_ids \subseteq n.provider_ids)

\* C6: no step erases what the cache knows about a native id: the item
\* cached for it keeps a name, year, description and artist reference it
\* had, and all its provider_ids entries.
C6_BackfillOnly ==
    [][\A u \in Uids : uids[u] # NullRef =>
          /\ uids'[u] # NullRef
          /\ ~Erased(heap[uids[u]], heap'[uids'[u]])]_vars

\* an album cached with title, year, summary and artist was re-processed
\* with a record that has none of the first three
C6_Witness ==
    /\ last.op = "_process_album" /\ last.hit /\ last.status = "ok"
    /\ last.rec.title = "" /\ last.rec.year = 0 /\ last.rec.summary = ""
    /\ last.before.name # "" /\ last.before.year # 0
    /\ last.before.description # "" /\ last.before.artist # NullRef

\* C8: a library enumeration yields one item per record of the backend
\* listing, whatever happens while one record is canonicalized.
C8_EnumerationYieldsAll ==
    last.op \in {"get_library_artists", "get_library_albums"}
        => last.yielded = last.listed

C7_AllThrottled ==
    \A o \in netops : o.throttled

\* the format preferred among those the backend gives a URL for
Winner(offer) == FirstWithUrl(PreferredFormats, offer)

\* C9: get_stream_details ends in MediaNotFoundError only when no format
\* yields a URL or the first one that does has an unsupported mime type;
\* otherwise it returns the StreamDetails of that first format.
C9_FirstSuccessWins ==
    lastStream.status # "none" =>
        IF Winner(lastStream.offer) = 0
              \/ lastStream.offer[Winner(lastStream.offer)] \notin {"audio/mpeg", "audio/flac"}
        THEN lastStream.status = "notfound"
        ELSE lastStream.status = "ok" /\ lastStream.format = Winner(lastStream.offer)

\* C10: a get_stream_details call creates the playback-started task once
\* when it returns a StreamDetails and not at all when it ends in
\* MediaNotFoundError.
C10_ReportOncePerStream ==
    /\ lastStream.status = "ok" => lastStream.created = 1
    /\ lastStream.status = "notfound" => lastStream.created = 0

\* a call for a track the backend offers in some format ended in
\* MediaNotFoundError and created no task
C10_Witness ==
    /\ lastStream.status = "notfound" /\ lastStream.created = 0
    /\ \E f \in DOMAIN lastStream.offer : lastStream.offer[f] # ""

(***************************************************************************)
(* Properties of the provider's public calls.                              *)
(***************************************************************************)
\* the setup call that ended last reached the server and was refused
Refused ==
    /\ lastProv.backend \in {"refused", "unauthorized"}
    /\ plex_server[lastProv.inst] = "None"

\* C11: setup on an enabled adapter ends in LoginFailed when the username
\* or the password is missing or the server refuses the connection or the
\* credentials, and returns True only with a server handle held.
C11_SetupLoginFailed ==
    lastProv.op = "setup" /\ lastProv.enabled =>
        /\ (lastProv.username = "" \/ lastProv.password = "" \/ Refused)
              => lastProv.status = "LoginFailed"
        /\ lastProv.ret = "True" => plex_server[lastProv.inst] # "None"

(***************************************************************************)
(* Properties of the player and of the dispatch of its commands.           *)
(***************************************************************************)
\* C12: after power(False) the player is IDLE and has no current_url,
\* whatever state it was in.
C12_PowerOffForcesIdle ==
    lastCmd.invoked = "power" /\ lastCmd.arg = PyBool(FALSE) =>
        player.state = "IDLE" /\ player.current_url = PyNone

\* the commands the state machine of the player is specified over
StateCommands == {"play", "pause", "stop", "power", "play_url"}

\* C13: under play, pause, stop, power and play_url the state stays one of
\* IDLE, PLAYING and PAUSED, and it changes only to PLAYING on play, to
\* PAUSED on pause of a PLAYING player, and to IDLE on stop or power.
C13_StateEdges ==
    [][lastCmd'.invoked \in StateCommands =>
          /\ player'.state \in {"IDLE", "PLAYING", "PAUSED"}
          /\ player'.state # player.state =>
                \/ player'.state = "PLAYING" /\ lastCmd'.invoked = "play"
                \/ /\ player'.state = "PAUSED" /\ lastCmd'.invoked = "pause"
                   /\ player.state = "PLAYING"
                \/ player'.state = "IDLE" /\ lastCmd'.invoked \in {"stop", "power"}]_vars

\* C14: the volume of the player is a number from 0 to 100.
C14_VolumeInRange ==
    player.volume_level.type = "int" /\ player.volume_level.val \in 0..100

\* C15: a request, over HTTP or over the WebSocket, that names a command
\* outside the player commands is answered with an "unsupported command"
\* error and calls nothing on the player.
C15_UnknownCommandRejected ==
    lastCmd.path \in {"http", "ws"} /\ lastCmd.cmd \notin PlayerCommands =>
        lastCmd.response = "unsupported command" /\ lastCmd.invoked = "none"

(***************************************************************************)
(* Properties of the throttler.                                            *)
(***************************************************************************)
\* the GETs started in the period that begins with the i-th GET
InWindow(i) == {j \in DOMAIN gets : gets[j] >= gets[i] /\ gets[j] - gets[i] <= Period}

\* C16: any window of one period holds at most rate_limit of the GETs that
\* _get_data started, and a call that finds no slot is only delayed: a slot
\* is free once more than one period has passed.
C16_WindowBound ==
    /\ \A i \in DOMAIN gets : Cardinality(InWindow(i)) <= RateLimit
    /\ CanAcquire(task_logs, now) \/ CanAcquire(task_logs, now + Period + 1)

\* more GETs than one window admits were started, the later ones after a
\* wait, and the window is full again
C16_Witness ==
    /\ Len(gets) > RateLimit
    /\ ~CanAcquire(task_logs, now)

(***************************************************************************)
(* Properties of search and of the track listings.                         *)
(***************************************************************************)
\* C17: search called with media_types None, or with the parameter left at
\* its default, returns a list.
C17_SearchAllTypes ==
    lastProv.op = "search" /\ lastProv.media_types.kind \in {"None", "default"} =>
        lastProv.status = "ok" /\ lastProv.ret = "list"

\* C18: get_library_tracks on a provider that is set up yields one track
\* for each track of the backend library.
C18_LibraryTracksYieldsAll ==
    lastProv.op = "get_library_tracks" /\ plex_music[lastProv.inst] # "None" =>
        lastProv.status = "ok" /\ lastProv.yielded = lastProv.listed

\* C20: get_artist_toptracks returns an empty list when the artist/get call
\* and the catalog/search call both returned None.
C20_ToptracksNoResult ==
    /\ lastProv.op = "get_artist_toptracks"
    /\ lastProv.r1 = "None" /\ lastProv.r2 = "None"
    => lastProv.status = "ok" /\ lastProv.ret = "list" /\ lastProv.yielded = 0

(***************************************************************************)
(* Properties of save_config.                                              *)
(***************************************************************************)
\* the config a partial update of cur by new is specified to leave: the
\* entries new names and cur has take the value of new, all others stay
Updated(cur, new) ==
    [k \in TopKeys |->
        IF ~cur[k].present \/ ~new[k].present THEN cur[k]
        ELSE [present |-> TRUE,
              val |-> IF k \in DictKeys THEN cur[k].val ELSE new[k].val,
              sub |-> [s \in SubKeys |->
                          IF cur[k].sub[s] # Absent /\ new[k].sub[s] # Absent
                          THEN new[k].sub[s] ELSE cur[k].sub[s]]]]

\* C19: a save_config request succeeds whatever top-level keys and
\* sub-keys its body omits; the omitted entries keep their value, the
\* posted entries the config has take the posted value, and no key is
\* added.
C19_PartialConfig ==
    lastSave.status # "none" =>
        /\ lastSave.status = "success"
        /\ config = Updated(lastSave.before, lastSave.posted)

(***************************************************************************)
(* Properties of the paged listings.                                       *)
(***************************************************************************)
\* a page that ends the listing: the request failed, there are no items
\* under the key, or there are fewer than a full page of them
StopPage(result) ==
    result.kind = "None" \/ ~result.haskey \/ result.n = 0 \/ result.n < Limit

\* the requests made so far ask for offsets 0, 50, 100, ... with limit 50,
\* none was made after a page that ends the listing, and the call has
\* ended exactly when it fetched such a page
PagingInOrder ==
    /\ Len(paging.requests) = Len(paging.results)
    /\ \A i \in DOMAIN paging.requests :
          paging.requests[i] = [offset |-> (i - 1) * Limit, limit |-> Limit]
    /\ \A i \in DOMAIN paging.results :
          i < Len(paging.results) => ~StopPage(paging.results[i])
    /\ paging.pc = "running" =>
          paging.results = <<>> \/ ~StopPage(paging.results[Len(paging.results)])
    /\ paging.pc = "done" =>
          paging.results # <<>> /\ StopPage(paging.results[Len(paging.results)])

\* C21: _get_all_items requests the offsets 0, 50, 100, ... in this order
\* with limit 50, stops at the first page that failed, has no items or is
\* short, requests nothing after it, and ends once such a page comes.
C21_PagingStops ==
    /\ []PagingInOrder
    /\ (paging.pc = "running") ~> (paging.pc = "done")

\* a call ended on a short page that came after a full one
C21_Witness ==
    /\ paging.pc = "done"
    /\ Len(paging.results) >= 2
    /\ paging.results[1].n = Limit
    /\ paging.results[Len(paging.results)].n \in 1..(Limit - 1)

\* the items of the pages fetched, in fetch order
RECURSIVE Fetched(_, _)
Fetched(results, p) ==
    IF p > Len(results) THEN <<>>
    ELSE (IF results[p].kind = "json" /\ results[p].haskey
          THEN [i \in 1..results[p].n |-> [page |-> p, idx |-> i]]
          ELSE <<>>) \o Fetched(results, p + 1)

\* C22: the result of _get_all_items is the items of the pages it fetched,
\* in fetch order, and its k-th item carries position k.
C22_PositionsInOrder ==
    LET want == Fetched(paging.results, 1)
    IN  /\ Len(paging.all_items) = Len(want)
        /\ \A k \in DOMAIN paging.all_items :
              /\ paging.all_items[k].position = k
              /\ paging.all_items[k].page = want[k].page
              /\ paging.all_items[k].idx = want[k].idx

\* a call returned the items of two full pages and of a short one
C22_Witness ==
    /\ paging.pc = "done"
    /\ Len(paging.results) = 3
    /\ Len(paging.all_items) = 2 * Limit + 1
    /\ paging.all_items[2 * Limit + 1] = [page |-> 3, idx |-> 1, position |-> 2 * Limit + 1]

(***************************************************************************)
(* Properties of _get_data.                                                *)
(***************************************************************************)
\* C23: _get_data never raises: it returns None, sending nothing, when
\* there is no auth token; it returns None when the decoded response has
\* an error key or an error status or the body cannot be decoded; in every
\* other case it returns the decoded response.
C23_GetDataNeverRaises ==
    lastHttp.op = "_get_data" =>
        /\ lastHttp.result # "raise"
        /\ ~lastHttp.sent => lastHttp.result = "None"
        /\ lastHttp.sent =>
              lastHttp.result =
                  (IF lastHttp.resp \in {"error", "status_error", "undecodable"}
                   THEN "None" ELSE "json")

(***************************************************************************)
(* Properties of the cached albums and of the variants returned.           *)
(***************************************************************************)
\* C24: between canonicalization calls every Album in the identity cache
\* has an artist reference, also after a _process_album or _parse_album
\* call that failed part-way.
C24_CachedAlbumHasArtist ==
    \A u \in Uids :
        (uids[u] # NullRef /\ heap[uids[u]].kind = "album")
            => heap[uids[u]].artist # NullRef

\* the variant each canonicalization is to return
VariantOf == [op \in {"_process_artist", "_process_album", "_process_track"} |->
                 CASE op = "_process_artist" -> "artist"
                   [] op = "_process_album" -> "album"
                   [] OTHER -> "track"]

\* C25: an Album returned by _process_album has as its artist an Artist
\* whose item_id is the record's parentRatingKey, and what _process_artist
\* and _process_track return is an Artist and a Track, also when the
\* native id was first cached by a canonicalization of another media type.
C25_VariantMatchesCall ==
    (last.op \in DOMAIN VariantOf /\ last.status = "ok") =>
        /\ last.op # "_process_album" => heap[last.ret].kind = VariantOf[last.op]
        /\ last.op = "_process_album" =>
              /\ heap[last.ret].artist # NullRef
              /\ heap[heap[last.ret].artist].kind = "artist"
              /\ heap[heap[last.ret].artist].item_id = Str(last.rec.parentRatingKey)

(***************************************************************************)
(* Properties of the web server's other handlers.                          *)
(***************************************************************************)
\* the method and argument each LMS command string stands for
LmsMethod(cmds) ==
    CASE cmds = <<"button", "power">> -> [method |-> "power_toggle", arg |-> PyNone]
      [] cmds = <<"power">> -> [method |-> "power", arg |-> PyNone]
      [] Len(cmds) = 2 /\ cmds[1] = "power" ->
            [method |-> "power", arg |-> PyStr(cmds[2])]
      [] cmds \in {<<"next">>, <<"playlist", "index", "+1">>} ->
            [method |-> "next", arg |-> PyNone]
      [] cmds \in {<<"previous">>, <<"playlist", "index", "-1">>} ->
            [method |-> "previous", arg |-> PyNone]
      [] Len(cmds) = 3 /\ cmds[1] = "mixer" /\ cmds[2] = "volume" ->
            [method |-> "volume_set", arg |-> PyStr(cmds[3])]
      [] cmds = <<"mixer", "muting", "1">> ->
            [method |-> "volume_mute", arg |-> PyBool(TRUE)]
      [] cmds = <<"mixer", "muting", "0">> ->
            [method |-> "volume_mute", arg |-> PyBool(FALSE)]
      [] cmds = <<"button", "volup">> -> [method |-> "volume_up", arg |-> PyNone]
      [] cmds = <<"button", "voldown">> -> [method |-> "volume_down", arg |-> PyNone]
      [] cmds \in {<<"play">>, <<"pause">>, <<"stop">>} ->
            [method |-> cmds[1], arg |-> PyNone]
      [] OTHER -> [method |-> "none", arg |-> PyNone]

\* C26: json_rpc calls for each LMS command string exactly its method:
\* 'button power' calls power_toggle() and not power(), 'power <arg>' calls
\* power(arg), and any other string calls nothing and is answered
\* 'command not supported'.
C26_RpcCallsItsMethod ==
    (lastCmd.path = "jsonrpc" /\ Registered(lastCmd.player_id)) =>
        /\ lastCmd.invoked = LmsMethod(lastCmd.cmds).method
        /\ lastCmd.arg = LmsMethod(lastCmd.cmds).arg
        /\ (lastCmd.response = "command not supported")
              <=> (LmsMethod(lastCmd.cmds).method = "none")

\* C27: when the handler of a WebSocket connection has ended, the listener
\* it registered was removed exactly once, and remove_event_listener was
\* not called at all if the connection never registered a listener.
C27_ListenerRemovedOnce ==
    conn.pc = "closed" =>
        /\ conn.registered =>
              conn.removes = <<conn.cb_id>> /\ conn.cb_id \notin listeners
        /\ ~conn.registered => conn.removes = <<>>

\* C28: player_queue returns the page that starts at index offset and
\* holds min(limit, max(0, queue length - offset)) items, in queue order.
C28_QueuePage ==
    lastQueue.status = "ok" =>
        lastQueue.result =
            [i \in 1..Min(lastQueue.limit, Max(0, lastQueue.n - lastQueue.offset))
                |-> lastQueue.offset + i]

====
